---- MODULE Spec2Model ----
(***************************************************************************)
(* sprout: the interactive question/answer collection engine               *)
(* (src/sprout/prompt.py, src/sprout/question.py) driven by the command    *)
(* line entry point (src/sprout/cli.py).                                   *)
(*                                                                         *)
(* Python strings are sequences of one-character strings, so that strip,   *)
(* lower, split and str() are computed the way the interpreter computes    *)
(* them.  Python values are tagged records [kind, val].                    *)
(***************************************************************************)
EXTENDS Integers, Sequences, FiniteSets, TLC

VARIABLES
    initial_answers, \* the mapping collect_answers' caller passes to it
    scenario,     \* which question list the manifest supplies
    source,       \* what _resolve_questions gets from the manifest
    tty,          \* sys.stdin.isatty() and sys.stdout.isatty(), right now
    force,        \* TemplateCLIArgs.force
    destState,    \* what ensure_destination found at the destination path
    pc,           \* where main is blocked, or how it ended
    qi,           \* 1-based index of the question collect_answers is at
    answers,      \* collect_answers: the answers dict
    defaultValue, \* ask_question: default_value of the current question
    currentDefault, \* _interactive_choice: current_default (the seed)
    pointer,      \* pointer_box[0] of the running menu / inline application
    selected,     \* selected_box of the running menu application
    attempts,     \* rejected attempts of the question being asked
    accepted,     \* values returned by ask_question to collect_answers, in order
    step,         \* the operation the last step ran
    lastInput,    \* the line the last step read from the user
    calls,        \* user functions invoked by the last step, in order
    errors,       \* errors printed by the last step, in order
    invoked,      \* downstream collaborators invoked so far
    exitCode,     \* what main returned or the process exited with
    tempDir,      \* the directory _prepare_template_source made for a clone
    twin          \* the record of a question resolved twice (run 0: not kept)

vars == <<initial_answers, scenario, source, tty, force, destState, pc, qi, answers, defaultValue,
          currentDefault, pointer, selected, attempts, accepted, step,
          lastInput, calls, errors, invoked, exitCode, tempDir, twin>>

-----------------------------------------------------------------------------
(* Bounds of the model.                                                    *)

MaxLen == 3          \* longest line the user types
MaxAttempts == 1     \* rejected attempts explored per question
MaxTwinLen == 1      \* longest line typed at a question that is resolved twice
MaxSteps == 4        \* steps recorded of one resolution of such a question

-----------------------------------------------------------------------------
(* Python values.                                                          *)

None == [kind |-> "none", val |-> <<>>]
Str(s) == [kind |-> "str", val |-> s]
List(l) == [kind |-> "list", val |-> l]
PyInt(n) == [kind |-> "int", val |-> n]

IsList(v) == v.kind = "list"

\* `x in (None, "", [])`
IsBlank(v) == v = None \/ v = Str(<<>>) \/ v = List(<<>>)

-----------------------------------------------------------------------------
(* Python strings.                                                         *)

Alphabet == {"a", "A", "1", "2", ",", " "}

Lines(longest) == UNION {[1..n -> Alphabet] : n \in 0..longest}

\* the lines the user may type
TypedLines == Lines(MaxLen)

\* the lines the user may type at a question that is resolved twice
TwinLines == Lines(MaxTwinLen)

Inputs == IF twin.run = 0 THEN TypedLines ELSE TwinLines

DigitChar == <<"0", "1", "2", "3", "4", "5", "6", "7", "8", "9">>

\* str(n) of a non-negative int
RECURSIVE IntStr(_)
IntStr(n) ==
    IF n < 10 THEN <<DigitChar[n + 1]>>
    ELSE IntStr(n \div 10) \o <<DigitChar[(n % 10) + 1]>>

LowerChar(c) == IF c = "A" THEN "a" ELSE c

UpperChar(c) == IF c = "a" THEN "A" ELSE c

\* str.lower()
Lower(s) == [i \in 1..Len(s) |-> LowerChar(s[i])]

\* str.upper()
Upper(s) == [i \in 1..Len(s) |-> UpperChar(s[i])]

RECURSIVE LStrip(_)
LStrip(s) ==
    IF s # <<>> /\ Head(s) = " " THEN LStrip(Tail(s)) ELSE s

RECURSIVE RStrip(_)
RStrip(s) ==
    IF s # <<>> /\ s[Len(s)] = " " THEN RStrip(SubSeq(s, 1, Len(s) - 1)) ELSE s

\* str.strip()
Strip(s) == RStrip(LStrip(s))

\* str.split(","): the pieces between the commas, empty pieces included
RECURSIVE SplitFrom(_, _, _)
SplitFrom(s, i, cur) ==
    IF i > Len(s) THEN <<cur>>
    ELSE IF s[i] = "," THEN <<cur>> \o SplitFrom(s, i + 1, <<>>)
    ELSE SplitFrom(s, i + 1, Append(cur, s[i]))

Split(s) == SplitFrom(s, 1, <<>>)

RECURSIVE Join(_, _)
Join(sep, parts) ==
    IF parts = <<>> THEN <<>>
    ELSE IF Len(parts) = 1 THEN parts[1]
    ELSE parts[1] \o sep \o Join(sep, Tail(parts))

\* str(value)
RECURSIVE PyStr(_)
PyRepr(v) == IF v.kind = "str" THEN <<"'">> \o v.val \o <<"'">> ELSE PyStr(v)
PyStr(v) ==
    CASE v.kind = "str" -> v.val
      [] v.kind = "int" -> IntStr(v.val)
      [] v.kind = "none" -> <<"N", "o", "n", "e">>
      [] v.kind = "list" ->
            <<"[">> \o Join(<<",", " ">>, [i \in 1..Len(v.val) |-> PyRepr(v.val[i])]) \o <<"]">>

IsDigit(c) == \E d \in 1..10 : DigitChar[d] = c

DigitVal(c) == (CHOOSE d \in 1..10 : DigitChar[d] = c) - 1

RECURSIVE DigitsToInt(_)
DigitsToInt(s) ==
    IF s = <<>> THEN 0
    ELSE 10 * DigitsToInt(SubSeq(s, 1, Len(s) - 1)) + DigitVal(s[Len(s)])

-----------------------------------------------------------------------------
(* The question model (src/sprout/question.py) and the question lists the  *)
(* manifests of the model supply.                                          *)

Literal(v) == [kind |-> "literal", val |-> v, fn |-> ""]
Derived(f) == [kind |-> "derived", val |-> None, fn |-> f]

NoChoices == <<>>

Question(key, default, choices, multiselect, parser, validators) ==
    [key |-> key, default |-> default, choices |-> choices,
     multiselect |-> multiselect, parser |-> parser, validators |-> validators]

\* (value, label) pairs in which the indices, the values and the labels overlap
Palette == << <<Str(<<"2">>), <<"a">> >>,
              <<Str(<<"a">>), <<"1">> >>,
              <<Str(<<"a", "a">>), <<"A", "2">> >> >>

\* two choices: each token that is an index or a label is also something else
Pair == << <<Str(<<"a">>), <<"2">> >>,
           <<Str(<<"1">>), <<"a">> >> >>

\* two choices numbered as their values: no letter is a token of this list
Levels == << <<Str(<<"1">>), <<"2">> >>,
             <<Str(<<"2">>), <<"1">> >> >>

QuestionLists == <<
    \* 1: a name, then a title whose default is derived from the name
    << Question("name", Literal(Str(<<"a">>)), NoChoices, FALSE, "", <<"short">>),
       Question("title", Derived("upper_name"), NoChoices, FALSE, "",
                <<"short", "differs_from_name">>) >>,
    \* 2: single choice among three, with a default
    << Question("color", Literal(Str(<<"a">>)), Palette, FALSE, "", <<>>) >>,
    \* 3: two choices and a validator
    << Question("pick", Literal(Str(<<"1">>)), Pair, FALSE, "", <<"not_1">>) >>,
    \* 4: multiselect with a default list and a validator over the trial map
    << Question("feats", Literal(List(<<Str(<<"a">>)>>)), Palette, TRUE, "",
                <<"at_most_one">>) >>,
    \* 5: two questions sharing one key
    << Question("name", Literal(Str(<<"a">>)), NoChoices, FALSE, "", <<"short">>),
       Question("name", Literal(None), Pair, TRUE, "", <<"at_most_one">>) >>,
    \* 6: free text without default, parsed as an integer
    << Question("count", Literal(None), NoChoices, FALSE, "int", <<>>) >>,
    \* 7: free text with a default, parsed as an integer
    << Question("count", Literal(PyInt(2)), NoChoices, FALSE, "int", <<"short">>) >>,
    \* 8: free text whose default is the empty string
    << Question("note", Literal(Str(<<>>)), NoChoices, FALSE, "", <<"short">>) >>,
    \* 9: free text whose default is the empty list
    << Question("tags", Literal(List(<<>>)), NoChoices, FALSE, "", <<"short">>) >>,
    \* 10: multiselect without default, then a single choice with a parser
    << Question("feats", Literal(None), Levels, TRUE, "", <<>>),
       Question("level", Literal(Str(<<"2">>)), Palette, FALSE, "int", <<>>) >>,
    \* 11: free text without default whose validator wants non-empty trimmed text
    << Question("label", Literal(None), NoChoices, FALSE, "", <<"nonblank">>) >>,
    \* 12: single choice among three whose default is the empty list
    << Question("shade", Literal(List(<<>>)), Palette, FALSE, "", <<>>) >>,
    \* 13: multiselect whose default list the validator rejects
    << Question("feats", Literal(List(<<Str(<<"a">>), Str(<<"2">>)>>)), Palette, TRUE, "",
                <<"at_most_one">>) >>,
    \* 14: single choice among three with a default and a validator
    << Question("tone", Literal(Str(<<"a">>)), Palette, FALSE, "", <<"short">>) >>,
    \* 15: free text checked by a validator of one parameter, then by one of two
    << Question("code", Literal(None), NoChoices, FALSE, "", <<"legacy_short", "nonblank">>) >>,
    \* 16: free text whose validator reads an answer that is not there
    << Question("repo", Literal(None), NoChoices, FALSE, "", <<"needs_owner">>) >>,
    \* 17: free text whose validator raises TypeError however it is called
    << Question("slug", Literal(None), NoChoices, FALSE, "", <<"broken">>) >>
>>

NumScenarios == Len(QuestionLists)

-----------------------------------------------------------------------------
(* The user functions a question carries: default functions, parsers and   *)
(* validators.  Each is a deterministic function of its arguments.         *)

\* a default given as a function of the answers
DefaultFn(f, ans) ==
    CASE f = "upper_name" ->
            IF "name" \in DOMAIN ans /\ ans["name"].kind = "str"
            THEN [exc |-> "", val |-> Str(Upper(ans["name"].val))]
            ELSE [exc |-> "KeyError", val |-> None]
      [] OTHER -> [exc |-> "", val |-> None]

\* parser(raw, answers)
ParserFn(p, raw, ans) ==
    CASE p = "int" ->
            LET t == Strip(raw)
            IN  IF t # <<>> /\ \A i \in 1..Len(t) : IsDigit(t[i])
                THEN [exc |-> "", val |-> PyInt(DigitsToInt(t))]
                ELSE [exc |-> "ValueError", val |-> None]
      [] OTHER -> [exc |-> "", val |-> Str(raw)]

\* validator(raw, trial): (valid, message); message "" stands for None
ValidatorFn(v, key, raw, trial) ==
    CASE v = "short" ->
            [exc |-> "", valid |-> Len(raw) <= 1, message |-> "too long."]
      [] v = "not_1" ->
            [exc |-> "", valid |-> trial[key] # Str(<<"1">>), message |-> "1 is not allowed."]
      [] v = "differs_from_name" ->
            IF "name" \in DOMAIN trial
            THEN [exc |-> "", valid |-> raw # PyStr(trial["name"]), message |-> ""]
            ELSE [exc |-> "KeyError", valid |-> FALSE, message |-> ""]
      [] v = "nonblank" ->
            [exc |-> "", valid |-> Strip(raw) # <<>>, message |-> "must not be empty."]
      [] v = "at_most_one" ->
            [exc |-> "", valid |-> ~IsList(trial[key]) \/ Len(trial[key].val) <= 1,
             message |-> "choose at most one."]
      \* a function of one parameter: the call with two arguments is a TypeError
      [] v = "legacy_short" ->
            [exc |-> "TypeError", valid |-> FALSE, message |-> ""]
      \* reads trial["owner"]
      [] v = "needs_owner" ->
            IF "owner" \in DOMAIN trial
            THEN [exc |-> "", valid |-> TRUE, message |-> ""]
            ELSE [exc |-> "KeyError", valid |-> FALSE, message |-> ""]
      \* adds a number to the raw string
      [] v = "broken" ->
            [exc |-> "TypeError", valid |-> FALSE, message |-> ""]
      [] OTHER -> [exc |-> "", valid |-> TRUE, message |-> ""]

\* validator(raw): the same functions called with one argument; a function
\* with two required parameters raises TypeError
ValidatorFn1(v, raw) ==
    CASE v = "legacy_short" ->
            [exc |-> "", valid |-> Len(raw) <= 1, message |-> "too long."]
      \* answers defaults to None and the check is skipped
      [] v = "needs_owner" ->
            [exc |-> "", valid |-> TRUE, message |-> ""]
      [] OTHER -> [exc |-> "TypeError", valid |-> FALSE, message |-> ""]

-----------------------------------------------------------------------------
(* Question.resolve_default and the validation/parse pipeline.             *)

Put(ans, key, value) ==
    [k \in DOMAIN ans \cup {key} |-> IF k = key THEN value ELSE ans[k]]

EmptyAnswers == [k \in {} |-> None]

Call(fn, name, arg, ans) == [fn |-> fn, name |-> name, arg |-> arg, answers |-> ans]

resolve_default(question, ans) ==
    IF question.default.kind = "derived"
    THEN LET r == DefaultFn(question.default.fn, ans)
         IN  [exc |-> r.exc, val |-> r.val,
              calls |-> <<Call("default", question.default.fn, <<>>, ans)>>]
    ELSE [exc |-> "", val |-> question.default.val, calls |-> <<>>]

\* raw is None or a Str
apply_parser(question, value, ans, raw) ==
    IF question.parser # "" /\ ~question.multiselect
    THEN LET raw_value == IF raw # None THEN raw.val ELSE PyStr(value)
             r == ParserFn(question.parser, raw_value, ans)
         IN  [exc |-> r.exc, val |-> r.val,
              calls |-> <<Call("parser", question.parser, raw_value, ans)>>]
    ELSE [exc |-> "", val |-> value, calls |-> <<>>]

\* _run_validator's try/except TypeError: validator(raw_value,
\* candidate_answers), and validator(raw_value) when that raised TypeError
call_validator(v, key, raw_value, candidate_answers) ==
    LET r == ValidatorFn(v, key, raw_value, candidate_answers)
        c == Call("validator", v, raw_value, candidate_answers)
    IN  IF r.exc = "TypeError"
        THEN LET r1 == ValidatorFn1(v, raw_value)
             IN  [exc |-> r1.exc, valid |-> r1.valid, message |-> r1.message,
                  calls |-> <<c, Call("validator1", v, raw_value, EmptyAnswers)>>]
        ELSE [exc |-> r.exc, valid |-> r.valid, message |-> r.message, calls |-> <<c>>]

\* a loop that calls every validator and then reports the first failure
RECURSIVE RunValidatorsFrom_exhaustive(_, _, _, _)
RunValidatorsFrom_exhaustive(question, i, raw_value, candidate_answers) ==
    IF i > Len(question.validators) THEN [exc |-> "", message |-> "", calls |-> <<>>]
    ELSE LET v == question.validators[i]
             r == call_validator(v, question.key, raw_value, candidate_answers)
             rest == RunValidatorsFrom_exhaustive(question, i + 1, raw_value,
                                                  candidate_answers)
         IN  IF r.exc # "" THEN [exc |-> r.exc, message |-> "", calls |-> r.calls]
             ELSE IF ~r.valid
             THEN [exc |-> "ValueError",
                   message |-> IF r.message # "" THEN r.message ELSE "invalid value.",
                   calls |-> r.calls \o rest.calls]
             ELSE [rest EXCEPT !.calls = r.calls \o @]

RECURSIVE RunValidatorsFrom(_, _, _, _)
RunValidatorsFrom(question, i, raw_value, candidate_answers) ==
    IF i > Len(question.validators) THEN [exc |-> "", message |-> "", calls |-> <<>>]
    ELSE LET v == question.validators[i]
             r == call_validator(v, question.key, raw_value, candidate_answers)
         IN  IF r.exc # "" THEN [exc |-> r.exc, message |-> "", calls |-> r.calls]
             ELSE IF ~r.valid
             THEN [exc |-> "ValueError",
                   message |-> IF r.message # "" THEN r.message ELSE "invalid value.",
                   calls |-> r.calls]
             ELSE LET rest == RunValidatorsFrom(question, i + 1, raw_value, candidate_answers)
                  IN  [rest EXCEPT !.calls = r.calls \o @]

\* a trial map that holds the raw string under the question's key
run_validator_raw(question, value, ans, raw) ==
    IF question.validators = <<>> THEN [exc |-> "", message |-> "", calls |-> <<>>]
    ELSE LET raw_value == IF raw # None THEN raw.val ELSE PyStr(value)
             candidate_answers == Put(ans, question.key, Str(raw_value))
         IN  RunValidatorsFrom(question, 1, raw_value, candidate_answers)

run_validator(question, value, ans, raw) ==
    IF question.validators = <<>> THEN [exc |-> "", message |-> "", calls |-> <<>>]
    ELSE LET candidate_answers == Put(ans, question.key, value)
             raw_value == IF raw # None THEN raw.val ELSE PyStr(value)
         IN  RunValidatorsFrom(question, 1, raw_value, candidate_answers)

-----------------------------------------------------------------------------
(* One pass of the retry loop of each line-oriented prompt.  The result    *)
(* says how the pass ends: "return" (the value is accepted), "retry" (the  *)
(* loop goes round) or "raise" (an exception leaves the loop).             *)

Return(value, cs) ==
    [status |-> "return", value |-> value, exc |-> "", errors |-> <<>>, calls |-> cs]
Retry(err, cs) ==
    [status |-> "retry", value |-> None, exc |-> "", errors |-> <<err>>, calls |-> cs]
Raise(exc, cs) ==
    [status |-> "raise", value |-> None, exc |-> exc, errors |-> <<>>, calls |-> cs]

Error(kind, message, token) == [kind |-> kind, message |-> message, token |-> token]

\* a text prompt that calls the parser outside its try block
TextFinish_parser_outside_try(question, default_value, ans, stripped) ==
    LET candidate == IF stripped = <<>> THEN default_value ELSE Str(stripped)
        parser_input == IF stripped = <<>> THEN PyStr(default_value) ELSE stripped
        parsed == apply_parser(question, candidate, ans, Str(parser_input))
    IN  IF parsed.exc # "" THEN Raise(parsed.exc, parsed.calls)
        ELSE LET checked == run_validator(question, parsed.val, ans, Str(parser_input))
                 cs == parsed.calls \o checked.calls
             IN  IF checked.exc = "ValueError"
                 THEN Retry(Error("validation", checked.message, <<>>), cs)
                 ELSE IF checked.exc # "" THEN Raise(checked.exc, cs)
                 ELSE Return(parsed.val, cs)

\* _prompt_for_text after the required-input check: candidate, parser,
\* validators
TextFinish(question, default_value, ans, stripped) ==
    LET candidate == IF stripped = <<>> THEN default_value ELSE Str(stripped)
        parser_input == IF stripped = <<>> THEN PyStr(default_value) ELSE stripped
        parsed == apply_parser(question, candidate, ans, Str(parser_input))
    IN  IF parsed.exc = "ValueError"
        THEN Retry(Error("parser", "ValueError", <<>>), parsed.calls)
        ELSE IF parsed.exc # "" THEN Raise(parsed.exc, parsed.calls)
        ELSE LET checked == run_validator(question, parsed.val, ans, Str(parser_input))
                 cs == parsed.calls \o checked.calls
             IN  IF checked.exc = "ValueError"
                 THEN Retry(Error("validation", checked.message, <<>>), cs)
                 ELSE IF checked.exc # "" THEN Raise(checked.exc, cs)
                 ELSE Return(parsed.val, cs)

\* a prompt that asks again on every empty line, default or not
prompt_for_text_always_required(question, default_value, ans, response) ==
    IF Strip(response) = <<>>
    THEN Retry(Error("required", "Please provide a value.", <<>>), <<>>)
    ELSE TextFinish(question, default_value, ans, Strip(response))

\* a prompt that hands an empty line to the parser and the validators
prompt_for_text_validating_blank(question, default_value, ans, response) ==
    IF Strip(response) = <<>> /\ IsBlank(default_value)
    THEN LET checked == run_validator(question, Str(<<>>), ans, Str(<<>>))
         IN  IF checked.exc = "ValueError"
             THEN Retry(Error("validation", checked.message, <<>>), checked.calls)
             ELSE Return(Str(<<>>), checked.calls)
    ELSE TextFinish(question, default_value, ans, Strip(response))

\* a prompt without the required-input check
prompt_for_text_unchecked(question, default_value, ans, response) ==
    TextFinish(question, default_value, ans, Strip(response))

\* _prompt_for_text: the body of `while True` for one response
prompt_for_text(question, default_value, ans, response) ==
    IF Strip(response) = <<>> /\ IsBlank(default_value)
    THEN Retry(Error("required", "Please provide a value.", <<>>), <<>>)
    ELSE TextFinish(question, default_value, ans, Strip(response))

\* value_map, label_map and index_map of _fallback_choice: a later choice
\* overwrites an earlier one under the same key
LastIndex(S) ==
    IF S = {} THEN 0 ELSE CHOOSE i \in S : \A j \in S : j <= i

index_map(choices, token) ==
    LastIndex({i \in 1..Len(choices) : IntStr(i) = token})
value_map(choices, lower) ==
    LastIndex({i \in 1..Len(choices) : Lower(PyStr(choices[i][1])) = lower})
label_map(choices, lower) ==
    LastIndex({i \in 1..Len(choices) : Lower(choices[i][2]) = lower})

\* a chain that looks a token up as a value before it looks at the numbers
resolve_token_value_first(choices, token) ==
    IF value_map(choices, Lower(token)) # 0 THEN value_map(choices, Lower(token))
    ELSE IF index_map(choices, token) # 0 THEN index_map(choices, token)
    ELSE label_map(choices, Lower(token))

\* the if/elif chain over the three maps: the index of the choice, or 0
resolve_token(choices, token) ==
    IF index_map(choices, token) # 0 THEN index_map(choices, token)
    ELSE IF value_map(choices, Lower(token)) # 0 THEN value_map(choices, Lower(token))
    ELSE label_map(choices, Lower(token))

\* [token.strip() for token in response.split(",") if token.strip()]
Tokens(response) ==
    LET stripped == [i \in 1..Len(Split(response)) |-> Strip(Split(response)[i])]
    IN  SelectSeq(stripped, LAMBDA t : t # <<>>)

\* a loop that drops an unknown token and keeps the values of the others
RECURSIVE ResolveAll_skipping(_, _, _, _)
ResolveAll_skipping(choices, tokens, i, resolved) ==
    IF i > Len(tokens) THEN [invalid |-> 0, resolved |-> resolved]
    ELSE LET idx == resolve_token(choices, tokens[i])
         IN  IF idx = 0 THEN ResolveAll_skipping(choices, tokens, i + 1, resolved)
             ELSE ResolveAll_skipping(choices, tokens, i + 1,
                                      Append(resolved, choices[idx][1]))

\* the for loop of the multiselect branch: the values resolved before the
\* first unknown token, and that token's position (0 when none is unknown)
RECURSIVE ResolveAll(_, _, _, _)
ResolveAll(choices, tokens, i, resolved) ==
    IF i > Len(tokens) THEN [invalid |-> 0, resolved |-> resolved]
    ELSE LET idx == resolve_token(choices, tokens[i])
         IN  IF idx = 0 THEN [invalid |-> i, resolved |-> resolved]
             ELSE ResolveAll(choices, tokens, i + 1, Append(resolved, choices[idx][1]))

default_list(question, default_value) ==
    IF question.multiselect
    THEN IF IsList(default_value) THEN default_value.val ELSE <<>>
    ELSE IF ~IsBlank(default_value) THEN <<default_value>> ELSE <<>>

\* _fallback_choice from the parser call on, for a candidate
FallbackFinish(question, ans, candidate, response) ==
    LET raw_value == IF response # <<>> THEN response ELSE PyStr(candidate)
        parsed == IF question.parser # "" /\ ~question.multiselect
                  THEN LET r == ParserFn(question.parser, PyStr(candidate), ans)
                       IN  [exc |-> r.exc, val |-> r.val,
                            calls |-> <<Call("parser", question.parser, PyStr(candidate), ans)>>]
                  ELSE [exc |-> "", val |-> candidate, calls |-> <<>>]
    IN  IF parsed.exc # "" THEN Raise(parsed.exc, parsed.calls)
        ELSE LET checked == run_validator(question, parsed.val, ans, Str(raw_value))
                 cs == parsed.calls \o checked.calls
             IN  IF checked.exc = "ValueError"
                 THEN Retry(Error("validation", checked.message, <<>>), cs)
                 ELSE IF checked.exc # "" THEN Raise(checked.exc, cs)
                 ELSE Return(parsed.val, cs)

\* _fallback_choice: the body of `while True` for one (stripped) response
fallback_choice(question, ans, default_value, response) ==
    LET choices == question.choices
        dl == default_list(question, default_value)
    IN  IF response = <<>>
        THEN IF question.multiselect THEN FallbackFinish(question, ans, List(dl), response)
             ELSE IF dl # <<>> THEN FallbackFinish(question, ans, dl[1], response)
             ELSE Retry(Error("required", "Please choose a value.", <<>>), <<>>)
        ELSE IF question.multiselect
        THEN LET r == ResolveAll(choices, Tokens(response), 1, <<>>)
             IN  IF r.invalid # 0
                 THEN Retry(Error("unknown", "Unknown choice", Tokens(response)[r.invalid]), <<>>)
                 ELSE FallbackFinish(question, ans, List(r.resolved), response)
        ELSE LET idx == resolve_token(choices, response)
             IN  IF idx # 0 THEN FallbackFinish(question, ans, choices[idx][1], response)
                 ELSE FallbackFinish(question, ans, Str(response), response)

-----------------------------------------------------------------------------
(* The live menu and the inline choice: their initial state and what       *)
(* happens to a confirmed selection.  Indices are 0-based as in the code.  *)

\* value_to_index.get(value): the index of the last choice with the value, or -1
value_to_index(items, value) ==
    LastIndex({i \in 1..Len(items) : items[i][1] = value}) - 1

\* _prompt_toolkit_choice, selected_indices
initial_selected(question, default_value) ==
    IF question.multiselect
    THEN LET default_values == IF IsList(default_value) THEN default_value.val ELSE <<>>
         IN  {value_to_index(question.choices, default_values[k]) :
                 k \in {j \in 1..Len(default_values) :
                          value_to_index(question.choices, default_values[j]) >= 0}}
    ELSE {}

Min(S) == CHOOSE x \in S : \A y \in S : x <= y

\* `value_to_index.get(default_value, 0)` hashes the default: a list default
\* of a question that is not multiselect raises TypeError
unhashable_default(question, default_value) ==
    ~question.multiselect /\ IsList(default_value)

\* _prompt_toolkit_choice and _prompt_toolkit_inline_choice, pointer
initial_pointer(question, default_value) ==
    IF question.multiselect
    THEN IF initial_selected(question, default_value) # {}
         THEN Min(initial_selected(question, default_value)) ELSE 0
    ELSE IF value_to_index(question.choices, default_value) >= 0
         THEN value_to_index(question.choices, default_value) ELSE 0

\* sorted(selected_box)
RECURSIVE Sorted(_)
Sorted(S) == IF S = {} THEN <<>> ELSE <<Min(S)>> \o Sorted(S \ {Min(S)})

\* a confirm that returns what the menu displays, the labels
confirm_result_labels(question, ptr, sel) ==
    IF question.multiselect
    THEN List([k \in 1..Cardinality(sel) |-> Str(question.choices[Sorted(sel)[k] + 1][2])])
    ELSE Str(question.choices[ptr + 1][2])

\* a confirm that lists the ticked values from the last index down
confirm_result_descending(question, ptr, sel) ==
    IF question.multiselect
    THEN List([k \in 1..Cardinality(sel) |->
                  question.choices[Sorted(sel)[Cardinality(sel) + 1 - k] + 1][1]])
    ELSE question.choices[ptr + 1][1]

\* _confirm: the result the application exits with
confirm_result(question, ptr, sel) ==
    IF question.multiselect
    THEN List([k \in 1..Cardinality(sel) |-> question.choices[Sorted(sel)[k] + 1][1]])
    ELSE question.choices[ptr + 1][1]

\* _interactive_choice after the menu returned selection: parser, then the
\* validators inside try/except ValueError
interactive_choice(question, ans, selection) ==
    LET parsed == apply_parser(question, selection, ans, None)
    IN  IF parsed.exc # "" THEN Raise(parsed.exc, parsed.calls)
        ELSE LET checked == run_validator(question, parsed.val, ans, Str(PyStr(selection)))
                 cs == parsed.calls \o checked.calls
             IN  IF checked.exc = "ValueError"
                 THEN Retry(Error("validation", checked.message, <<>>), cs)
                 ELSE IF checked.exc # "" THEN Raise(checked.exc, cs)
                 ELSE Return(parsed.val, cs)

\* ask_question after the inline choice returned selection: nothing catches
inline_choice(question, ans, selection) ==
    LET parsed == apply_parser(question, selection, ans, None)
    IN  IF parsed.exc # "" THEN Raise(parsed.exc, parsed.calls)
        ELSE LET checked == run_validator(question, parsed.val, ans, Str(PyStr(selection)))
                 cs == parsed.calls \o checked.calls
             IN  IF checked.exc # "" THEN Raise(checked.exc, cs)
                 ELSE Return(parsed.val, cs)

-----------------------------------------------------------------------------
(* The state machine: main (src/sprout/cli.py) running execute_manifest.   *)
(* A step runs from one blocking read of the terminal, or from the top of  *)
(* a retry loop, to the next.  step, lastInput, calls and errors record    *)
(* what the last step did.                                                 *)

questions == QuestionLists[scenario]

\* the question _confirm_overwrite asks
OverwriteQuestion ==
    Question("overwrite", Literal(Str(<<"n", "o">>)),
             << <<Str(<<"y", "e", "s">>), <<"Y", "e", "s">> >>,
                <<Str(<<"n", "o">>), <<"N", "o">> >> >>,
             FALSE, "", <<>>)

question == IF pc = "overwrite" THEN OverwriteQuestion ELSE questions[qi]

Tag(cs) == [k \in 1..Len(cs) |-> [q |-> qi, call |-> cs[k]]]

Waiting == {"text", "menu", "inline", "fallback", "overwrite"}
Looping == {"text_again", "fallback_again", "menu_again"}

\* a mode detector that never finds a terminal
supports_live_interaction_never == FALSE

supports_live_interaction == tty

\* what a manifest may give as its questions
Sources == {"questions", "not_a_sequence", "not_questions"}

\* no question is resolved twice
NoTwin == [run |-> 0, prior |-> EmptyAnswers, log |-> <<>>,
           first |-> [log |-> <<>>]]

\* the state when main is entered
Entered ==
    /\ scenario \in 1..NumScenarios
    /\ source \in Sources
    /\ tty \in BOOLEAN
    /\ force \in BOOLEAN
    /\ destState = "unread"
    /\ pc = "start"
    /\ qi = 0
    /\ answers = EmptyAnswers
    /\ defaultValue = None
    /\ currentDefault = None
    /\ pointer = 0
    /\ selected = {}
    /\ attempts = 0
    /\ accepted = <<>>
    /\ step = "init"
    /\ lastInput = <<>>
    /\ calls = <<>>
    /\ errors = <<>>
    /\ invoked = {}
    /\ exitCode = -1
    /\ tempDir = "none"

\* main is entered; execute_manifest will call collect_answers without
\* initial_answers
Init == Entered /\ twin = NoTwin /\ initial_answers = EmptyAnswers

\* what the last step read and what came of it
Observation ==
    [step |-> step', input |-> lastInput', mode |-> tty',
     pc |-> pc', errors |-> errors', accepted |-> accepted']

\* what the last step read
Stimulus(e) == [step |-> e.step, input |-> e.input, mode |-> e.mode]

\* when a question is resolved twice, each step of a resolution is recorded,
\* and the second resolution is given the keys and lines of the first
Observed ==
    IF twin.run = 0 THEN twin' = twin
    ELSE LET log == IF step' = "ask_question" THEN <<Observation>>
                    ELSE Append(twin.log, Observation)
         IN  /\ Len(log) <= MaxSteps
             /\ twin.run = 2 =>
                   /\ step' = "ask_question" => twin.log = <<>>
                   /\ Len(log) <= Len(twin.first.log)
                   /\ Stimulus(Observation) = Stimulus(twin.first.log[Len(log)])
             /\ twin' = [twin EXCEPT !.log = log,
                                     !.prior = IF step' = "ask_question" THEN answers ELSE @]

\* what a step that reads no line and calls no user function records
Quiet(name) ==
    /\ step' = name
    /\ lastInput' = <<>>
    /\ calls' = <<>>
    /\ errors' = <<>>

\* the standard streams are substituted while the program waits for input
SetStreams ==
    /\ pc \in Waiting
    /\ tty' = ~tty
    /\ Quiet("SetStreams")
    /\ UNCHANGED <<initial_answers, scenario, source, force, destState, pc, qi, answers, defaultValue,
                   currentDefault, pointer, selected, attempts, accepted,
                   invoked, exitCode, tempDir>>
    /\ Observed

\* main's `finally: if cleanup: cleanup()`.  Once _resolve_template has
\* returned, cleanup is the function it returned: for a cloned template the
\* removal of the clone's directory, for a local one a function that does
\* nothing
Finally == tempDir' = IF tempDir = "created" THEN "removed" ELSE tempDir

\* main up to collect_answers' `answers = dict(initial_answers or {})`, or up
\* to the SystemExit(message) of _resolve_questions: exit status 1
Start ==
    /\ pc = "start"
    /\ IF source = "questions"
       THEN /\ pc' = "ask"
            /\ qi' = 1
            /\ UNCHANGED <<exitCode, tempDir>>
       ELSE /\ pc' = "exited"
            /\ qi' = qi
            /\ exitCode' = 1
            /\ Finally
    /\ answers' = initial_answers
    /\ Quiet("Start")
    /\ UNCHANGED <<initial_answers, scenario, source, tty, force, destState, defaultValue,
                   currentDefault, pointer, selected, attempts, accepted, invoked>>
    /\ Observed

\* main's `return 1` after KeyboardInterrupt
AbortStatus == 1

\* an exception other than KeyboardInterrupt leaves main
Crash ==
    /\ pc' = "crashed"
    /\ exitCode' = 1
    /\ Finally

\* a menu that opens with the cursor where the last menu left it
EnterChoice_resuming(q, seed) ==
    IF supports_live_interaction
    THEN /\ pc' = "menu"
         /\ pointer' = IF pointer < Len(q.choices) THEN pointer ELSE 0
         /\ selected' = initial_selected(q, seed)
    ELSE /\ pc' = "fallback"
         /\ UNCHANGED <<pointer, selected>>

\* the top of _interactive_choice's loop: the live menu seeded with
\* current_default, or the fallback chooser
EnterChoice(q, seed) ==
    IF supports_live_interaction
    THEN /\ pc' = "menu"
         /\ pointer' = initial_pointer(q, seed)
         /\ selected' = initial_selected(q, seed)
    ELSE /\ pc' = "fallback"
         /\ UNCHANGED <<pointer, selected>>

\* ask_question up to the first read of the strategy it dispatches to; an
\* exception of the default function or of the menu's set-up leaves it
ask_question ==
    /\ pc = "ask"
    /\ qi <= Len(questions)
    /\ step' = "ask_question"
    /\ lastInput' = <<>>
    /\ errors' = <<>>
    /\ attempts' = 0
    /\ LET q == questions[qi]
           d == resolve_default(q, answers)
           inline_choice_enabled == Len(q.choices) = 2 /\ ~q.multiselect
       IN  /\ calls' = Tag(d.calls)
           /\ IF \/ d.exc # ""
                 \/ /\ q.choices # <<>>
                    /\ supports_live_interaction
                    /\ unhashable_default(q, d.val)
              THEN /\ Crash
                   /\ UNCHANGED <<defaultValue, currentDefault, pointer, selected>>
              ELSE /\ defaultValue' = d.val
                   /\ currentDefault' = d.val
                   /\ UNCHANGED <<exitCode, tempDir>>
                   /\ IF inline_choice_enabled /\ supports_live_interaction
                      THEN /\ pc' = "inline"
                           /\ pointer' = initial_pointer(q, d.val)
                           /\ selected' = {}
                      ELSE IF q.choices # <<>>
                      THEN EnterChoice(q, d.val)
                      ELSE /\ pc' = "text"
                           /\ UNCHANGED <<pointer, selected>>
    /\ UNCHANGED <<initial_answers, scenario, source, tty, force, destState, qi, answers, accepted, invoked>>
    /\ Observed

\* a loop that passes over the question after the one it accepted
Accept_skipping(value) ==
    /\ answers' = Put(answers, questions[qi].key, value)
    /\ initial_answers' = initial_answers
    /\ accepted' = Append(accepted, value)
    /\ qi' = qi + 2
    /\ pc' = "ask"

\* a loop that stores each answer in the mapping its caller passed
Accept_in_place(value) ==
    /\ answers' = Put(answers, questions[qi].key, value)
    /\ initial_answers' = Put(initial_answers, questions[qi].key, value)
    /\ accepted' = Append(accepted, value)
    /\ qi' = qi + 1
    /\ pc' = "ask"

\* collect_answers: `answers[question.key] = ask_question(...)`, next
\* question; answers is a dict of its own, the caller's is not written to
Accept(value) ==
    /\ answers' = Put(answers, questions[qi].key, value)
    /\ initial_answers' = initial_answers
    /\ accepted' = Append(accepted, value)
    /\ qi' = qi + 1
    /\ pc' = "ask"

\* how a pass of a retry loop ends
Continue(out, again) ==
    /\ calls' = Tag(out.calls)
    /\ errors' = out.errors
    /\ CASE out.status = "return" ->
                /\ Accept(out.value)
                /\ UNCHANGED <<attempts, exitCode, tempDir>>
         [] out.status = "retry" ->
                /\ attempts < MaxAttempts
                /\ attempts' = attempts + 1
                /\ pc' = again
                /\ UNCHANGED <<initial_answers, qi, answers, accepted, exitCode, tempDir>>
         [] out.status = "raise" ->
                /\ Crash
                /\ UNCHANGED <<initial_answers, qi, answers, accepted, attempts>>

\* _prompt_for_text reads a line and runs the rest of the loop body
text_input ==
    /\ pc = "text"
    /\ step' = "text_input"
    /\ \E response \in Inputs :
          /\ lastInput' = response
          /\ Continue(prompt_for_text(questions[qi], defaultValue, answers, response),
                      "text_again")
    /\ UNCHANGED <<scenario, source, tty, force, destState, defaultValue, currentDefault,
                   pointer, selected, invoked>>
    /\ Observed

\* a loop that resolves the default again before it asks again
text_loop_resolving ==
    /\ pc = "text_again"
    /\ pc' = "text"
    /\ step' = "text_loop"
    /\ lastInput' = <<>>
    /\ errors' = <<>>
    /\ calls' = Tag(resolve_default(questions[qi], answers).calls)
    /\ UNCHANGED <<initial_answers, scenario, source, tty, force, destState, qi, answers, defaultValue,
                   currentDefault, pointer, selected, attempts, accepted,
                   invoked, exitCode, tempDir>>
    /\ Observed

\* _prompt_for_text: back to the top of `while True`
text_loop ==
    /\ pc = "text_again"
    /\ pc' = "text"
    /\ Quiet("text_loop")
    /\ UNCHANGED <<initial_answers, scenario, source, tty, force, destState, qi, answers, defaultValue,
                   currentDefault, pointer, selected, attempts, accepted,
                   invoked, exitCode, tempDir>>
    /\ Observed

\* _fallback_choice reads a line, console.input(...).strip(), and runs the
\* rest of the loop body
fallback_input ==
    /\ pc = "fallback"
    /\ step' = "fallback_input"
    /\ \E line \in Inputs :
          /\ lastInput' = line
          /\ Continue(fallback_choice(questions[qi], answers, currentDefault, Strip(line)),
                      "fallback_again")
    /\ UNCHANGED <<scenario, source, tty, force, destState, defaultValue, currentDefault,
                   pointer, selected, invoked>>
    /\ Observed

\* _fallback_choice: back to the top of `while True`
fallback_loop ==
    /\ pc = "fallback_again"
    /\ pc' = "fallback"
    /\ Quiet("fallback_loop")
    /\ UNCHANGED <<initial_answers, scenario, source, tty, force, destState, qi, answers, defaultValue,
                   currentDefault, pointer, selected, attempts, accepted,
                   invoked, exitCode, tempDir>>
    /\ Observed

\* a key that only moves the cursor or toggles an item
MenuKey(name, ptr, sel) ==
    /\ pointer' = ptr
    /\ selected' = sel
    /\ Quiet(name)
    /\ UNCHANGED <<initial_answers, scenario, source, tty, force, destState, pc, qi, answers, defaultValue,
                   currentDefault, attempts, accepted, invoked, exitCode, tempDir>>
    /\ Observed

\* a cursor that moves up without wrapping around
go_up_unwrapped ==
    /\ pc = "menu"
    /\ MenuKey("go_up", pointer - 1, selected)

\* _choice_key_bindings: up/k, and left/h which does the same
go_up ==
    /\ pc = "menu"
    /\ MenuKey("go_up", (pointer - 1) % Len(question.choices), selected)

\* _choice_key_bindings: down/j, and right/l which does the same
go_down ==
    /\ pc = "menu"
    /\ MenuKey("go_down", (pointer + 1) % Len(question.choices), selected)

go_home ==
    /\ pc = "menu"
    /\ MenuKey("go_home", 0, selected)

go_end ==
    /\ pc = "menu"
    /\ MenuKey("go_end", Len(question.choices) - 1, selected)

\* a space key that ticks the item under the cursor and never unticks it
toggle_ticking ==
    /\ pc = "menu"
    /\ question.multiselect
    /\ MenuKey("toggle", pointer, selected \cup {pointer})

\* space, bound only when question.multiselect
toggle ==
    /\ pc = "menu"
    /\ question.multiselect
    /\ MenuKey("toggle", pointer,
               IF pointer \in selected THEN selected \ {pointer}
               ELSE selected \cup {pointer})

\* enter in the menu, then the rest of _interactive_choice's loop body
confirm ==
    /\ pc = "menu"
    /\ step' = "confirm"
    /\ lastInput' = <<>>
    /\ LET selection == confirm_result(questions[qi], pointer, selected)
           out == interactive_choice(questions[qi], answers, selection)
       IN  /\ Continue(out, "menu_again")
           /\ currentDefault' = IF out.status = "retry" THEN selection ELSE currentDefault
    /\ UNCHANGED <<scenario, source, tty, force, destState, defaultValue, pointer, selected,
                   invoked>>
    /\ Observed

\* _interactive_choice: back to the top of `while True`
choice_loop ==
    /\ pc = "menu_again"
    /\ EnterChoice(questions[qi], currentDefault)
    /\ Quiet("choice_loop")
    /\ UNCHANGED <<initial_answers, scenario, source, tty, force, destState, qi, answers, defaultValue,
                   currentDefault, attempts, accepted, invoked, exitCode, tempDir>>
    /\ Observed

\* _prompt_toolkit_inline_choice: left/h/up
inline_go_left ==
    /\ pc \in {"inline", "overwrite"}
    /\ MenuKey("inline_go_left", (pointer - 1) % Len(question.choices), selected)

\* _prompt_toolkit_inline_choice: right/l/down
inline_go_right ==
    /\ pc \in {"inline", "overwrite"}
    /\ MenuKey("inline_go_right", (pointer + 1) % Len(question.choices), selected)

\* enter in the inline choice of a collected question, then the rest of
\* ask_question
inline_confirm ==
    /\ pc = "inline"
    /\ step' = "inline_confirm"
    /\ lastInput' = <<>>
    /\ LET out == inline_choice(questions[qi], answers,
                                questions[qi].choices[pointer + 1][1])
       IN  /\ calls' = Tag(out.calls)
           /\ errors' = out.errors
           /\ IF out.status = "return"
              THEN /\ Accept(out.value)
                   /\ UNCHANGED <<exitCode, tempDir>>
              ELSE /\ Crash
                   /\ UNCHANGED <<initial_answers, qi, answers, accepted>>
    /\ UNCHANGED <<scenario, source, tty, force, destState, defaultValue, currentDefault,
                   pointer, selected, attempts, invoked>>
    /\ Observed

\* a ctrl-c that collect_answers swallows, returning what it has so far
interrupt_swallowed ==
    /\ pc \in Waiting
    /\ pc' = IF pc = "overwrite" THEN "aborted" ELSE "dest"
    /\ UNCHANGED <<exitCode, tempDir>>
    /\ Quiet("interrupt")
    /\ UNCHANGED <<initial_answers, scenario, source, tty, force, destState, qi, answers, defaultValue,
                   currentDefault, pointer, selected, attempts, accepted, invoked>>
    /\ Observed

\* ctrl-c at any read: KeyboardInterrupt reaches main, which returns 1
interrupt ==
    /\ pc \in Waiting
    /\ pc' = "aborted"
    /\ exitCode' = AbortStatus
    /\ Finally
    /\ Quiet("interrupt")
    /\ UNCHANGED <<initial_answers, scenario, source, tty, force, destState, qi, answers, defaultValue,
                   currentDefault, pointer, selected, attempts, accepted, invoked>>
    /\ Observed

\* collect_answers returns the answers to execute_manifest
collect_return ==
    /\ pc = "ask"
    /\ qi > Len(questions)
    /\ pc' = "dest"
    /\ attempts' = 0
    /\ Quiet("collect_return")
    /\ UNCHANGED <<initial_answers, scenario, source, tty, force, destState, qi, answers, defaultValue,
                   currentDefault, pointer, selected, accepted, invoked, exitCode, tempDir>>
    /\ Observed

DestStates == {"missing", "file", "empty", "nonempty"}

\* the message of a SystemExit, printed as the process exits with status 1
Exit(message) ==
    /\ pc' = "exited"
    /\ exitCode' = 1
    /\ Finally
    /\ errors' = <<Error("exit", message, <<>>)>>

\* an ensure_destination that asks the overwrite question in either mode
ensure_destination_asking ==
    /\ pc = "dest"
    /\ invoked' = invoked \cup {"ensure_destination"}
    /\ step' = "ensure_destination"
    /\ lastInput' = <<>>
    /\ calls' = <<>>
    /\ \E found \in DestStates :
          /\ destState' = found
          /\ IF found = "file"
             THEN Exit("destination is a file. Provide a directory path.")
                  /\ UNCHANGED pointer
             ELSE IF found = "nonempty" /\ ~force
             THEN /\ pc' = "overwrite"
                  /\ pointer' = initial_pointer(OverwriteQuestion,
                                                OverwriteQuestion.default.val)
                  /\ errors' = <<>>
                  /\ UNCHANGED <<exitCode, tempDir>>
             ELSE pc' = "apply" /\ errors' = <<>> /\ UNCHANGED <<exitCode, tempDir, pointer>>
    /\ UNCHANGED <<initial_answers, scenario, source, tty, force, qi, answers, defaultValue, currentDefault,
                   selected, attempts, accepted>>
    /\ Observed

\* ensure_destination up to the overwrite question's first read, or to its
\* SystemExit
ensure_destination ==
    /\ pc = "dest"
    /\ invoked' = invoked \cup {"ensure_destination"}
    /\ step' = "ensure_destination"
    /\ lastInput' = <<>>
    /\ calls' = <<>>
    /\ \E found \in DestStates :
          /\ destState' = found
          /\ IF found = "file"
             THEN Exit("destination is a file. Provide a directory path.")
                  /\ UNCHANGED pointer
             ELSE IF found = "nonempty" /\ ~force
             THEN IF ~supports_live_interaction
                  THEN Exit("aborted by user.") /\ UNCHANGED pointer
                  ELSE /\ pc' = "overwrite"
                       /\ pointer' = initial_pointer(OverwriteQuestion,
                                                     OverwriteQuestion.default.val)
                       /\ errors' = <<>>
                       /\ UNCHANGED <<exitCode, tempDir>>
             ELSE pc' = "apply" /\ errors' = <<>> /\ UNCHANGED <<exitCode, tempDir, pointer>>
    /\ UNCHANGED <<initial_answers, scenario, source, tty, force, qi, answers, defaultValue, currentDefault,
                   selected, attempts, accepted>>
    /\ Observed

\* an overwrite question whose answer is not looked at
overwrite_confirm_ignored ==
    /\ pc = "overwrite"
    /\ pc' = "apply"
    /\ Quiet("overwrite_confirm")
    /\ UNCHANGED <<initial_answers, scenario, source, tty, force, destState, qi, answers, defaultValue,
                   currentDefault, pointer, selected, attempts, accepted, invoked,
                   exitCode, tempDir>>
    /\ Observed

\* enter in the overwrite question, then the rest of ensure_destination
overwrite_confirm ==
    /\ pc = "overwrite"
    /\ IF OverwriteQuestion.choices[pointer + 1][1] = Str(<<"y", "e", "s">>)
       THEN pc' = "apply" /\ errors' = <<>> /\ UNCHANGED <<exitCode, tempDir>>
       ELSE Exit("aborted by user.")
    /\ step' = "overwrite_confirm"
    /\ lastInput' = <<>>
    /\ calls' = <<>>
    /\ UNCHANGED <<initial_answers, scenario, source, tty, force, destState, qi, answers, defaultValue,
                   currentDefault, pointer, selected, attempts, accepted, invoked>>
    /\ Observed

\* _invoke_apply, and main returns 0
apply ==
    /\ pc = "apply"
    /\ invoked' = invoked \cup {"apply"}
    /\ pc' = "done"
    /\ exitCode' = 0
    /\ Finally
    /\ Quiet("apply")
    /\ UNCHANGED <<initial_answers, scenario, source, tty, force, destState, qi, answers, defaultValue,
                   currentDefault, pointer, selected, attempts, accepted>>
    /\ Observed

Next ==
    \/ SetStreams
    \/ Start
    \/ ask_question
    \/ text_input
    \/ text_loop
    \/ fallback_input
    \/ fallback_loop
    \/ go_up
    \/ go_down
    \/ go_home
    \/ go_end
    \/ toggle
    \/ confirm
    \/ choice_loop
    \/ inline_go_left
    \/ inline_go_right
    \/ inline_confirm
    \/ interrupt
    \/ collect_return
    \/ ensure_destination
    \/ overwrite_confirm
    \/ apply

Spec == Init /\ [][Next]_vars

\* ask_question is called a second time for the question just accepted, with
\* the answers it was first called with; nothing else is reset
ask_again ==
    /\ twin.run = 1
    /\ pc = "ask"
    /\ qi >= 2
    /\ Len(accepted) = qi - 1
    /\ qi' = qi - 1
    /\ answers' = twin.prior
    /\ accepted' = SubSeq(accepted, 1, Len(accepted) - 1)
    /\ twin' = [run |-> 2, prior |-> twin.prior, log |-> <<>>,
                first |-> [log |-> twin.log]]
    /\ Quiet("ask_again")
    /\ UNCHANGED <<initial_answers, scenario, source, tty, force, destState, pc, defaultValue,
                   currentDefault, pointer, selected, attempts, invoked, exitCode, tempDir>>

InitTwice ==
    /\ Entered
    /\ source = "questions"
    /\ ~force
    /\ twin = [NoTwin EXCEPT !.run = 1]
    /\ initial_answers = EmptyAnswers

NextTwice ==
    \/ Start
    \/ ask_question
    \/ text_input
    \/ text_loop
    \/ fallback_input
    \/ fallback_loop
    \/ go_up
    \/ go_down
    \/ go_home
    \/ go_end
    \/ toggle
    \/ confirm
    \/ choice_loop
    \/ inline_go_left
    \/ inline_go_right
    \/ inline_confirm
    \/ ask_again

\* one question asked twice over, on the same keys and lines
SpecTwice == InitTwice /\ [][NextTwice]_vars

\* The collection of the answers alone, with a user who never interrupts.
\* The scenarios are those in which every question has an answer that its
\* parser and its validators let through.  The program's own steps are
\* taken when they can be; nothing is assumed of when the user answers.
LiveScenarios == (1..NumScenarios) \ {16, 17}

InitLive ==
    /\ Init
    /\ source = "questions"
    /\ ~force
    /\ scenario \in LiveScenarios

NextLive ==
    \/ Start
    \/ ask_question
    \/ text_input
    \/ text_loop
    \/ fallback_input
    \/ fallback_loop
    \/ go_up
    \/ go_down
    \/ go_home
    \/ go_end
    \/ toggle
    \/ confirm
    \/ choice_loop
    \/ inline_go_left
    \/ inline_go_right
    \/ inline_confirm
    \/ collect_return

\* the steps the program takes without waiting for the user
ProgramStep ==
    \/ Start
    \/ ask_question
    \/ text_loop
    \/ fallback_loop
    \/ choice_loop
    \/ collect_return

SpecLive ==
    /\ InitLive
    /\ [][NextLive]_vars
    /\ WF_vars(ProgramStep)

\* collect_answers called with a mapping of earlier answers: one entry that
\* no question list asks for, alone or with an entry under the key "name",
\* which scenarios 1 and 5 ask for
SeededAnswers ==
    { [k \in {"owner"} |-> Str(<<"a">>)],
      [k \in {"name", "owner"} |-> IF k = "name" THEN Str(<<"a", "a">>) ELSE Str(<<"a">>)] }

InitSeeded ==
    /\ Entered
    /\ twin = NoTwin
    /\ source = "questions"
    /\ ~force
    /\ initial_answers \in SeededAnswers

\* the call of collect_answers, until it returns or an exception leaves it
NextSeeded ==
    \/ Start
    \/ ask_question
    \/ text_input
    \/ text_loop
    \/ fallback_input
    \/ fallback_loop
    \/ go_up
    \/ go_down
    \/ go_home
    \/ go_end
    \/ toggle
    \/ confirm
    \/ choice_loop
    \/ inline_go_left
    \/ inline_go_right
    \/ inline_confirm
    \/ interrupt
    \/ collect_return

SpecSeeded == InitSeeded /\ [][NextSeeded]_vars

\* how _resolve_template ends for a template source that is not a local
\* path: the clone and the manifest are both in order, git is not installed,
\* git clone fails, the clone has no sprout.py, sprout.py lacks questions or
\* apply, or sprout.py raises when it is executed
Resolutions ==
    {"loaded", "git_missing", "clone_failed", "manifest_missing",
     "manifest_malformed", "manifest_raises"}

\* the SystemExit message of each failure that has one
ResolveMessage(outcome) ==
    CASE outcome = "git_missing" -> "git is required to clone remote templates."
      [] outcome = "clone_failed" -> "failed to clone template."
      [] outcome = "manifest_missing" -> "template source is missing sprout.py."
      [] outcome = "manifest_malformed" -> "sprout.py must define a questions variable."
      [] OTHER -> ""

\* main's call of _resolve_template for a remote template, and main's finally
\* when the call raises.  mkdtemp has made the directory before git runs; the
\* removal function is only handed to main by the tuple assignment, which an
\* exception skips, so that `if cleanup:` finds None
resolve_template ==
    /\ pc = "start"
    /\ tempDir = "none"
    /\ tempDir' = "created"
    /\ step' = "resolve_template"
    /\ lastInput' = <<>>
    /\ calls' = <<>>
    /\ \E outcome \in Resolutions :
          CASE outcome = "loaded" ->
                  /\ errors' = <<>>
                  /\ UNCHANGED <<pc, exitCode>>
            [] outcome = "manifest_raises" ->
                  /\ errors' = <<>>
                  /\ pc' = "crashed"
                  /\ exitCode' = 1
            [] OTHER ->
                  /\ errors' = <<Error("exit", ResolveMessage(outcome), <<>>)>>
                  /\ pc' = "exited"
                  /\ exitCode' = 1
    /\ UNCHANGED <<initial_answers, scenario, source, tty, force, destState, qi, answers,
                   defaultValue, currentDefault, pointer, selected, attempts, accepted,
                   invoked>>
    /\ Observed

\* the question lists of a run on a remote template: free text, a two-way
\* choice and a multiselect
RemoteScenarios == {1, 3, 13}

InitRemote == Init /\ scenario \in RemoteScenarios

\* main, for a template that is cloned or, when Start comes first, local
NextRemote == resolve_template \/ Next

SpecRemote == InitRemote /\ [][NextRemote]_vars

-----------------------------------------------------------------------------
(* Properties.                                                             *)

Keys == {questions[i].key : i \in 1..Len(questions)}

HasDuplicateKeys ==
    \E i, j \in 1..Len(questions) : i # j /\ questions[i].key = questions[j].key

\* C1: whenever a default function, a parser or a validator of question i is
\* invoked, the answers it receives hold, under the key of every earlier
\* question, the value accepted for that question.
C1_EarlierAnswersVisible ==
    \A k \in 1..Len(calls) :
        \A j \in 1..(calls[k].q - 1) :
            /\ questions[j].key \in DOMAIN calls[k].call.answers
            /\ calls[k].call.answers[questions[j].key] = accepted[j]

\* C1 for question lists whose keys are distinct
C1_EarlierAnswersVisibleDistinctKeys ==
    ~HasDuplicateKeys => C1_EarlierAnswersVisible

\* C2: an interrupt ends main with status 1 and nothing runs after it; when it
\* came during the collection no collaborator has been or is invoked, and a
\* collaborator is only ever invoked once every question has been accepted.
C2_InterruptAbortsCollection ==
    /\ step = "interrupt" => pc = "aborted" /\ exitCode = 1
    /\ pc = "aborted" => step = "interrupt"
    /\ pc = "aborted" /\ Len(accepted) < Len(questions) => invoked = {}
    /\ pc \in {"dest", "overwrite", "apply", "done"} \/ invoked # {}
          => Len(accepted) = Len(questions) /\ Keys \subseteq DOMAIN answers

\* C2: the collection was interrupted after a question had been accepted
C2_Witness ==
    /\ pc = "aborted"
    /\ accepted # <<>>
    /\ Len(accepted) < Len(questions)
    /\ invoked = {}

\* the last step ended with a validator answering "invalid"
ValidatorRejected ==
    /\ calls # <<>>
    /\ calls[Len(calls)].call.fn = "validator"
    /\ LET c == calls[Len(calls)]
           r == ValidatorFn(c.call.name, questions[c.q].key, c.call.arg, c.call.answers)
       IN  r.exc = "" /\ ~r.valid

\* C3: in every strategy a validator answering "invalid" makes the same
\* question be asked again; the error never leaves ask_question.
C3_RecoverableErrorsRetry ==
    ValidatorRejected => pc \in Looping /\ qi = calls[Len(calls)].q

\* C4: no step changes or removes an entry of the answers, and a step that
\* changes the answers adds exactly one key.
C4_AnswersOnlyGrow ==
    [][/\ \A k \in DOMAIN answers : k \in DOMAIN answers' /\ answers'[k] = answers[k]
       /\ answers' # answers =>
             Cardinality(DOMAIN answers') = Cardinality(DOMAIN answers) + 1]_vars

\* C5: a question list in which two questions share a key is rejected before
\* anything is prompted: no prompt is shown, no user function runs, nothing
\* is accepted and no collaborator is invoked.
C5_DuplicateKeysRejected ==
    HasDuplicateKeys =>
        /\ pc \in {"start", "ask", "exited"}
        /\ step \in {"init", "Start"}
        /\ accepted = <<>>
        /\ calls = <<>>

\* the question the last reading step asked
LastQ == IF pc = "ask" THEN qi - 1 ELSE qi

\* the token denotes choice i: by its displayed number, by its value or by
\* its label, letter case ignored for the last two
ByIndex(choices, t, i) == IntStr(i) = t
ByValue(choices, t, i) == Lower(PyStr(choices[i][1])) = Lower(t)
ByLabel(choices, t, i) == Lower(choices[i][2]) = Lower(t)

KnownToken(choices, t) ==
    \E i \in 1..Len(choices) :
        ByIndex(choices, t, i) \/ ByValue(choices, t, i) \/ ByLabel(choices, t, i)

\* the tokens of a line typed at the fallback chooser
TypedTokens(q, line) ==
    IF q.multiselect THEN Tokens(Strip(line)) ELSE <<Strip(line)>>

UnknownTokens(q, line) ==
    {TypedTokens(q, line)[i] : i \in {j \in 1..Len(TypedTokens(q, line)) :
                                        ~KnownToken(q.choices, TypedTokens(q, line)[j])}}

\* C6: in the fallback chooser, single-select or multiselect, a line with a
\* token that is no index, value or label is answered by an error naming such
\* a token, and the question is asked again.
C6_UnknownTokenRejected ==
    step = "fallback_input" /\ Strip(lastInput) # <<>>
        /\ UnknownTokens(questions[LastQ], lastInput) # {}
    => /\ pc = "fallback_again"
       /\ Len(errors) = 1
       /\ errors[1].kind = "unknown"
       /\ errors[1].token \in UnknownTokens(questions[LastQ], lastInput)

\* value v is what token t stands for under the order index, value, label
Denotes(choices, t, v) ==
    IF \E i \in 1..Len(choices) : ByIndex(choices, t, i)
    THEN \E i \in 1..Len(choices) : ByIndex(choices, t, i) /\ v = choices[i][1]
    ELSE IF \E i \in 1..Len(choices) : ByValue(choices, t, i)
    THEN \E i \in 1..Len(choices) : ByValue(choices, t, i) /\ v = choices[i][1]
    ELSE \E i \in 1..Len(choices) : ByLabel(choices, t, i) /\ v = choices[i][1]

\* C7: a multiselect line with an unknown token anywhere is rejected whole:
\* the answers and the accepted values stay as they were, no parser or
\* validator runs, the error names an unknown token and the question is asked
\* again; an accepted line yields exactly the values of its own tokens.
C7_InvalidTokenRejectsWholeInput ==
    [][pc = "fallback" /\ step' = "fallback_input" /\ questions[qi].multiselect
          /\ Strip(lastInput') # <<>>
       => LET q == questions[qi]
              tokens == Tokens(Strip(lastInput'))
              unknown == UnknownTokens(q, lastInput')
              value == answers'[q.key]
          IN  IF unknown # {}
              THEN /\ pc' = "fallback_again"
                   /\ answers' = answers
                   /\ accepted' = accepted
                   /\ calls' = <<>>
                   /\ Len(errors') = 1
                   /\ errors'[1].kind = "unknown"
                   /\ errors'[1].token \in unknown
              ELSE pc' = "ask" =>
                   /\ accepted' = Append(accepted, value)
                   /\ IsList(value)
                   /\ Len(value.val) = Len(tokens)
                   /\ \A i \in 1..Len(tokens) :
                         Denotes(q.choices, tokens[i], value.val[i])]_vars

\* C7: a line whose first token is known and whose second is not was rejected
C7_Witness ==
    /\ step = "fallback_input"
    /\ pc = "fallback_again"
    /\ questions[qi].multiselect
    /\ Len(Tokens(Strip(lastInput))) = 2
    /\ KnownToken(questions[qi].choices, Tokens(Strip(lastInput))[1])
    /\ errors = <<Error("unknown", "Unknown choice", Tokens(Strip(lastInput))[2])>>
    /\ calls = <<>>

\* C8: a value accepted by the fallback chooser is, token by token, what the
\* token stands for under the order index, then value, then label.
C8_IndexThenValueThenLabel ==
    step = "fallback_input" /\ pc = "ask" /\ Strip(lastInput) # <<>>
    => LET q == questions[LastQ]
           tokens == TypedTokens(q, lastInput)
       IN  IF q.multiselect
           THEN /\ Len(accepted[LastQ].val) = Len(tokens)
                /\ \A i \in 1..Len(tokens) :
                      Denotes(q.choices, tokens[i], accepted[LastQ].val[i])
           ELSE q.parser = "" /\ KnownToken(q.choices, tokens[1])
                => Denotes(q.choices, tokens[1], accepted[LastQ])

\* C8: the accepted token is the number of one choice and the value of another
C8_Witness ==
    /\ step = "fallback_input"
    /\ pc = "ask"
    /\ ~questions[LastQ].multiselect
    /\ \E i, j \in 1..Len(questions[LastQ].choices) :
          /\ i # j
          /\ ByIndex(questions[LastQ].choices, Strip(lastInput), i)
          /\ ByValue(questions[LastQ].choices, Strip(lastInput), j)
          /\ accepted[LastQ] = questions[LastQ].choices[i][1]
          /\ accepted[LastQ] # questions[LastQ].choices[j][1]

\* the default as the pipeline would accept it
ParsedDefault(q, d, ans) ==
    IF q.parser # "" /\ ~q.multiselect THEN ParserFn(q.parser, PyStr(d), ans)
    ELSE [exc |-> "", val |-> d]

DefaultIsValid(q, d, ans) ==
    /\ ParsedDefault(q, d, ans).exc = ""
    /\ \A i \in 1..Len(q.validators) :
          LET r == ValidatorFn(q.validators[i], q.key, PyStr(d),
                               Put(ans, q.key, ParsedDefault(q, d, ans).val))
          IN  r.exc = "" /\ r.valid

\* the question has a default that empty input can stand for
HasDefault(q, d) == IF q.multiselect THEN IsList(d) ELSE ~IsBlank(d)

C10_RequiredInputCheck ==
    step = "text_input" /\ Strip(lastInput) = <<>> /\ IsBlank(defaultValue)
    => /\ pc = "text_again"
       /\ calls = <<>>
       /\ errors = <<Error("required", "Please provide a value.", <<>>)>>
       /\ Len(accepted) = qi - 1
       /\ exitCode = -1

\* C10: a line of spaces was rejected on a question whose default is []
C10_Witness ==
    /\ step = "text_input"
    /\ pc = "text_again"
    /\ lastInput # <<>>
    /\ Strip(lastInput) = <<>>
    /\ defaultValue = List(<<>>)
    /\ questions[qi].validators # <<>>
    /\ calls = <<>>

\* the question's validator wants non-empty trimmed text
WantsNonBlank(q) == q.choices = <<>> /\ q.validators = <<"nonblank">>

\* C11 as stated: three spaces typed at a free-text question whose validator
\* wants non-empty trimmed text are rejected by that validator, with its
\* message.
C11_WhitespaceIsValidationError ==
    step = "text_input" /\ WantsNonBlank(questions[LastQ])
        /\ lastInput = <<" ", " ", " ">>
    => /\ pc = "text_again"
       /\ errors = <<Error("validation", "must not be empty.", <<>>)>>

\* C11: at a free-text question without default whose validator wants
\* non-empty trimmed text, a line of spaces is rejected by the required-input
\* check, before any validator runs, and the prompt is shown again; a line
\* with text in it, first or after a rejection, is accepted as that text,
\* trimmed.
C11_WhitespaceIsRequiredError ==
    step = "text_input" /\ WantsNonBlank(questions[LastQ]) /\ IsBlank(defaultValue)
    => IF Strip(lastInput) = <<>>
       THEN /\ pc = "text_again"
            /\ errors = <<Error("required", "Please provide a value.", <<>>)>>
            /\ calls = <<>>
            /\ Len(accepted) = qi - 1
       ELSE /\ pc = "ask"
            /\ errors = <<>>
            /\ accepted[LastQ] = Str(Strip(lastInput))
            /\ answers[questions[LastQ].key] = Str(Strip(lastInput))

\* C11: after a rejected attempt a two-character text was accepted as typed
C11_Witness ==
    /\ step = "text_input"
    /\ WantsNonBlank(questions[LastQ])
    /\ pc = "ask"
    /\ attempts = 1
    /\ Len(lastInput) = 2
    /\ accepted[LastQ] = Str(lastInput)

\* the run ended on the SystemExit of a malformed question list
ConfigurationError == pc = "exited" /\ step = "Start" /\ source # "questions"

\* C12: the exit status of a run the user interrupted is not the exit status
\* of a run that ended on a configuration error.
C12_AbortDiffersFromConfigError ==
    /\ pc = "aborted" => exitCode = AbortStatus
    /\ ConfigurationError => exitCode # AbortStatus

\* the user said yes to the overwrite question
OverwriteAllowed == OverwriteQuestion.choices[pointer + 1][1] = Str(<<"y", "e", "s">>)

\* C13: apply is invoked only when every question has been accepted and is
\* in the answers, and the destination has been prepared: it is no file,
\* and when it is a non-empty directory the run is forced or the user allowed
\* overwriting; a run that was aborted, that exited or that crashed has not
\* invoked apply.
C13_ApplyOnlyAfterCollectAndDestination ==
    /\ pc \in {"apply", "done"} \/ "apply" \in invoked
       => /\ source = "questions"
          /\ Len(accepted) = Len(questions)
          /\ Keys \subseteq DOMAIN answers
          /\ "ensure_destination" \in invoked
          /\ destState \in {"missing", "empty", "nonempty"}
          /\ destState = "nonempty" /\ ~force => OverwriteAllowed
    /\ pc \in {"aborted", "exited", "crashed"} => "apply" \notin invoked

\* C13: apply ran on a non-empty destination the user allowed to overwrite,
\* after two questions
C13_Witness ==
    /\ pc = "done"
    /\ "apply" \in invoked
    /\ destState = "nonempty"
    /\ ~force
    /\ Len(accepted) = 2

\* C14: the questions are asked in the order given, one at a time: the
\* index of the question only moves forward by one, exactly when a value is
\* accepted for the question it was at; a default is resolved, a prompt
\* waits and a user function runs only for the first question not yet
\* accepted; collect_answers returns with every question accepted once and
\* every key in the answers.
C14_OneQuestionAtATime ==
    [][/\ qi' \in {qi, qi + 1}
       /\ qi' = qi + 1 /\ qi >= 1 <=> Len(accepted') = Len(accepted) + 1
       /\ accepted' # accepted =>
             accepted' = Append(accepted, answers'[questions[qi].key])
       /\ \A k \in 1..Len(calls') :
             calls'[k].q = qi /\ qi = Len(accepted) + 1
       /\ step' = "ask_question" => qi' = Len(accepted') + 1
       /\ pc' \in (Waiting \ {"overwrite"}) \cup Looping => qi' = Len(accepted') + 1
       /\ pc' = "dest" => /\ Len(accepted') = Len(questions)
                          /\ Keys \subseteq DOMAIN answers']_vars

\* C14: collect_answers returned after two questions
C14_Witness ==
    /\ step = "collect_return"
    /\ pc = "dest"
    /\ Len(questions) = 2
    /\ Len(accepted) = 2
    /\ Keys \subseteq DOMAIN answers

\* C15: a question resolved a second time with the answers, the mode and the
\* keys and lines of the first time goes, step by step, through the same
\* errors to the same accepted value.
C15_SameInputsSameOutcome ==
    twin.run = 2 =>
        \A k \in 1..Len(twin.log) :
            /\ k <= Len(twin.first.log)
            /\ twin.log[k] = twin.first.log[k]

\* C15: the second resolution ended as the first, which had a rejected
\* attempt in it
C15_Witness ==
    /\ twin.run = 2
    /\ pc = "ask"
    /\ twin.log = twin.first.log
    /\ Len(twin.log) >= 4
    /\ \E k \in 1..Len(twin.log) : twin.log[k].errors # <<>>
    /\ twin.log[Len(twin.log)].accepted # twin.log[1].accepted

\* the strategy a question with n choices is to be asked with
Strategy(live, n, multiselect) ==
    IF n = 0 THEN "text"
    ELSE IF ~live THEN "fallback"
    ELSE IF n = 2 /\ ~multiselect THEN "inline"
    ELSE "menu"

\* C16: the prompt a question is first shown with, and the one the choice
\* loop shows it with again, is the inline choice exactly when the terminal
\* is live and the question has two choices and is not multiselect, the live
\* menu when the terminal is live and it has choices otherwise, the fallback
\* chooser when the terminal is not live and it has choices, and the text
\* prompt when it has no choices.
C16_StrategyByModeAndChoices ==
    step \in {"ask_question", "choice_loop"} /\ pc # "crashed"
    => pc = Strategy(tty, Len(questions[qi].choices), questions[qi].multiselect)

\* C16: a question with two choices is asked with the fallback chooser
C16_Witness ==
    /\ step = "ask_question"
    /\ pc = "fallback"
    /\ ~tty
    /\ Len(questions[qi].choices) = 2
    /\ ~questions[qi].multiselect

LiveStrategies == {"menu", "inline"}

\* C17: the mode is one decision for the whole run.  A question whose live
\* menu is shown again after a rejected selection is shown the live menu
\* again, and the choice question asked right after a choice question was
\* accepted is asked in the mode that one was asked in, whatever the streams
\* have become in between.
C17_ModeDecidedOnce ==
    [][/\ pc = "menu_again" => pc' = "menu"
       /\ /\ pc \in LiveStrategies \cup {"fallback"}
          /\ pc' = "ask"
          /\ qi' <= Len(questions)
          /\ questions[qi'].choices # <<>>
          => LET next == Strategy(tty', Len(questions[qi'].choices),
                                  questions[qi'].multiselect)
             IN  (pc \in LiveStrategies) <=> (next \in LiveStrategies)]_vars

Cursors == {"menu", "inline", "overwrite"}

\* C18: while a live menu or an inline choice is shown its cursor is an
\* index of the choice list, 0 <= cursor < number of choices, after every
\* key; the key for the previous item takes the cursor from 0 to the last
\* index and otherwise one down, the key for the next item takes it from
\* the last index to 0 and otherwise one up, home takes it to 0 and end to
\* the last index.
C18_CursorStaysInRange ==
    [][LET last == Len(question.choices) - 1
       IN  /\ pc' \in Cursors => pointer' \in 0..(Len(question'.choices) - 1)
           /\ step' \in {"go_up", "inline_go_left"}
              => pointer' = IF pointer = 0 THEN last ELSE pointer - 1
           /\ step' \in {"go_down", "inline_go_right"}
              => pointer' = IF pointer = last THEN 0 ELSE pointer + 1
           /\ step' = "go_home" => pointer' = 0
           /\ step' = "go_end" => pointer' = last]_vars

\* C18: the key for the previous item has wrapped the cursor of a menu of
\* three items, one of them ticked, from the first to the last
C18_Witness ==
    /\ step = "go_up"
    /\ pc = "menu"
    /\ Len(question.choices) = 3
    /\ pointer = 2
    /\ selected = {0}

\* the indices (0-based) of the choices whose value is v
IndicesOf(choices, v) == {i - 1 : i \in {j \in 1..Len(choices) : choices[j][1] = v}}

\* the indices of the choices whose value is in the default list
StartSelection(q, d) ==
    IF q.multiselect /\ IsList(d)
    THEN UNION {IndicesOf(q.choices, d.val[k]) : k \in 1..Len(d.val)}
    ELSE {}

\* the cursors a menu may start with
StartCursors(q, d) ==
    LET at == IF q.multiselect THEN StartSelection(q, d) ELSE IndicesOf(q.choices, d)
    IN  IF at = {} THEN {0}
        ELSE IF q.multiselect THEN {i \in at : \A j \in at : i <= j}
        ELSE at

\* what confirming the starting state returns
StartResult(q, d) ==
    IF q.multiselect
    THEN List(SelectSeq([i \in 1..Len(q.choices) |-> q.choices[i][1]],
                        LAMBDA v : IndicesOf(q.choices, v) \cap StartSelection(q, d) # {}))
    ELSE q.choices[(CHOOSE i \in StartCursors(q, d) : TRUE) + 1][1]

\* a step after which the live menu of the current question is to be open
MenuOpens ==
    /\ step \in {"ask_question", "choice_loop"}
    /\ Strategy(tty, Len(questions[qi].choices), questions[qi].multiselect) = "menu"
    /\ step = "ask_question" => resolve_default(questions[qi], answers).exc = ""

\* the default the menu is opened with
Seed ==
    IF step = "ask_question" THEN resolve_default(questions[qi], answers).val
    ELSE currentDefault

\* C19: a live menu opens with the cursor on the choice whose value is the
\* default, or on the first choice when the default is no choice value, and,
\* when multiselect, with exactly the choices ticked whose value is in the
\* default list and the cursor on the first of them (or on the first choice);
\* confirming it at once returns the value under that cursor, or, when
\* multiselect, the default values that are choices in choice order.
C19_MenuStartsAtDefault ==
    [][/\ MenuOpens' => /\ pc' = "menu"
                        /\ pointer' \in StartCursors(questions[qi], Seed)'
                        /\ selected' = StartSelection(questions[qi], Seed)'
       /\ MenuOpens /\ step' = "confirm"
          => LET q == questions[qi]
             IN  /\ pc' = "menu_again" => currentDefault' = StartResult(q, Seed)
                 /\ pc' = "ask" /\ q.parser = ""
                    => accepted' = Append(accepted, StartResult(q, Seed))]_vars

\* C20: in a multiselect menu the toggle key flips the membership of the
\* index under the cursor in the selection, and changes neither the cursor
\* nor the membership of any other index; the keys that move the cursor
\* leave the selection as it is; a menu that is not multiselect has no
\* toggle key and its selection stays empty.
C20_ToggleFlipsOnlyTheCursor ==
    [][/\ step' = "toggle"
          => /\ question.multiselect
             /\ pointer' = pointer
             /\ (pointer \in selected') <=> (pointer \notin selected)
             /\ \A i \in 0..(Len(question.choices) - 1) \ {pointer} :
                   (i \in selected') <=> (i \in selected)
             /\ selected' \subseteq 0..(Len(question.choices) - 1)
       /\ step' \in {"go_up", "go_down", "go_home", "go_end"} => selected' = selected
       /\ pc' = "menu" /\ ~question'.multiselect => selected' = {}]_vars

\* C20: a second toggle has unticked the item under the cursor and left
\* another item ticked
C20_Witness ==
    /\ step = "toggle"
    /\ pc = "menu"
    /\ pointer \notin selected
    /\ selected # {}

\* the values of the choices at the indices of sel, in choice order
ValuesAt(q, sel) ==
    LET at == SelectSeq([i \in 1..Len(q.choices) |-> i], LAMBDA i : (i - 1) \in sel)
    IN  [k \in 1..Len(at) |-> q.choices[at[k]][1]]

\* what the enter key of the menu returns in the current state
Confirmed(q) ==
    IF q.multiselect THEN List(ValuesAt(q, selected)) ELSE q.choices[pointer + 1][1]

\* C21: the enter key of the live menu returns the value under the cursor
\* when the question is not multiselect, and the values of the ticked
\* indices in ascending index order (the empty list when nothing is ticked)
\* when it is, whatever the cursor and whatever the order of the toggles:
\* that result, parsed, is what is accepted, or what is kept as the next
\* default when a validator rejects it.
C21_ConfirmReturnsSelection ==
    [][step' = "confirm"
       => LET q == questions[qi]
              parsed == apply_parser(q, Confirmed(q), answers, None)
          IN  /\ pc' = "ask" => accepted' = Append(accepted, parsed.val)
              /\ pc' = "menu_again" => currentDefault' = Confirmed(q)
              /\ pc' = "crashed" => accepted' = accepted]_vars

\* C21: two ticked values were returned in choice order with the cursor on
\* the first of them
C21_Witness ==
    /\ step = "confirm"
    /\ questions[1].multiselect
    /\ Len(accepted) = 1
    /\ accepted[1].kind = "list"
    /\ Len(accepted[1].val) = 2
    /\ pointer = 0
    /\ selected = {0, 1}

\* C22: when a validator has rejected the result confirmed in the live menu
\* the answers are as they were, and the same menu is shown again seeded from
\* the rejected result: the cursor on the rejected value when the question
\* is not multiselect, the rejected values ticked and the cursor on the first
\* of them (on the first choice when none is ticked) when it is.
C22_MenuReseededFromRejected ==
    [][/\ step' = "confirm" /\ pc' = "menu_again"
          => /\ answers' = answers
             /\ accepted' = accepted
       /\ step' = "choice_loop"
          => LET q == questions[qi]
             IN  /\ pc' = "menu"
                 /\ answers' = answers
                 /\ IF q.multiselect
                    THEN /\ List(ValuesAt(q, selected')) = currentDefault
                         /\ pointer' = IF selected' = {} THEN 0 ELSE Min(selected')
                    ELSE q.choices[pointer' + 1][1] = currentDefault]_vars

\* the candidate the validators of the last step were given
Candidate == calls[Len(calls)].call.answers[questions[qi].key]

\* C23: when a validator has rejected a line typed at the free-text prompt
\* or at the fallback chooser, the default the next attempt is offered is
\* the rejected attempt: the typed text at the text prompt, the rejected
\* candidate at the fallback chooser.
C23_RejectedAttemptIsNextSeed ==
    [][/\ /\ step' = "text_input"
          /\ pc' = "text_again"
          /\ errors'[1].kind = "validation"
          /\ Strip(lastInput') # <<>>
          => defaultValue' = Str(Strip(lastInput'))
       /\ /\ step' = "fallback_input"
          /\ pc' = "fallback_again"
          /\ errors'[1].kind = "validation"
          => currentDefault' = Candidate']_vars

\* the validator calls of the last step, in the order they were made
VCalls == SelectSeq(calls, LAMBDA c : c.call.fn = "validator")

\* what the k-th of them came to
Verdict(k) ==
    call_validator(VCalls[k].call.name, questions[LastQ].key, VCalls[k].call.arg,
                   VCalls[k].call.answers)

InputSteps == {"text_input", "fallback_input", "confirm", "inline_confirm"}

\* C24: the validators an attempt calls are the first validators of the
\* question's list, in list order, and every one but the last called returned
\* valid; an attempt rejected by validation stopped at the first validator
\* that returned invalid and reports its message, or "invalid value." when it
\* gave none; an attempt is accepted only when every validator of the list
\* was called and returned valid.
C24_ValidatorsInOrderFirstFailureStops ==
    step \in InputSteps
    => LET q == questions[LastQ]
           n == Len(VCalls)
       IN  /\ n <= Len(q.validators)
           /\ \A k \in 1..n : VCalls[k].call.name = q.validators[k]
           /\ \A k \in 1..(n - 1) : Verdict(k).exc = "" /\ Verdict(k).valid
           /\ errors # <<>> /\ errors[1].kind = "validation"
              => /\ n >= 1
                 /\ Verdict(n).exc = ""
                 /\ ~Verdict(n).valid
                 /\ errors[1].message = IF Verdict(n).message # "" THEN Verdict(n).message
                                        ELSE "invalid value."
           /\ pc = "ask"
              => /\ n = Len(q.validators)
                 /\ \A k \in 1..n : Verdict(k).exc = "" /\ Verdict(k).valid

\* C24: the first of two validators rejected the attempt and the second was
\* not called
C24_Witness ==
    /\ step = "text_input"
    /\ Len(questions[LastQ].validators) = 2
    /\ Len(VCalls) = 1
    /\ errors # <<>>
    /\ errors[1].kind = "validation"
    /\ errors[1].message = "too long."

\* the calls of the last step with two arguments that raised
RaisedAt == {k \in 1..Len(calls) :
                /\ calls[k].call.fn = "validator"
                /\ ValidatorFn(calls[k].call.name, questions[LastQ].key, calls[k].call.arg,
                               calls[k].call.answers).exc # ""}

\* C26: a validator whose call with the raw value and the trial map raised
\* is called again with the raw value alone, and that call decides: when it
\* returns valid the attempt goes on, when it returns invalid the attempt is
\* rejected with its message, and the exception leaves the question only
\* when that call raised too.
C26_RaisingValidatorIsRetried ==
    step \in InputSteps
    => \A k \in RaisedAt :
          /\ k < Len(calls)
          /\ calls[k + 1].call.fn = "validator1"
          /\ calls[k + 1].call.name = calls[k].call.name
          /\ calls[k + 1].call.arg = calls[k].call.arg
          /\ LET again == ValidatorFn1(calls[k].call.name, calls[k].call.arg)
             IN  /\ again.exc # "" <=> pc = "crashed"
                 /\ again.exc = "" /\ ~again.valid
                    => /\ pc \in Looping
                       /\ errors[1].message = IF again.message # "" THEN again.message
                                              ELSE "invalid value."

\* C25: the map every validator of an attempt is given is the answers so far
\* with the candidate put under the question's own key, the same map for all
\* of them; the answers themselves are as they were after a rejected attempt
\* (and after one that raised), and after an accepted attempt they are that
\* trial map, so a rejected candidate is in no later map.
C25_ValidationLeavesAnswersAlone ==
    [][step' \in InputSteps
       => LET key == questions[qi].key
          IN  /\ \A k \in 1..Len(calls') :
                    calls'[k].call.fn = "validator"
                    => /\ DOMAIN calls'[k].call.answers = DOMAIN answers \cup {key}
                       /\ \A other \in DOMAIN answers \ {key} :
                             calls'[k].call.answers[other] = answers[other]
                       /\ calls'[k].call.answers = VCalls'[1].call.answers
              /\ pc' # "ask" => answers' = answers
              /\ pc' = "ask" /\ VCalls' # <<>> => answers' = VCalls'[1].call.answers
              /\ pc' = "ask" => answers' = Put(answers, key, accepted'[Len(accepted')])]_vars

\* C25: the second question's attempt was rejected and the answers hold the
\* first answer only
C25_Witness ==
    /\ step = "text_input"
    /\ qi = 2
    /\ pc = "text_again"
    /\ errors # <<>>
    /\ errors[1].kind = "validation"
    /\ DOMAIN answers = {"name"}
    /\ VCalls[1].call.answers["title"] = Str(lastInput)

\* the last step gave a validator a candidate it answered "invalid" to
Invalidated ==
    /\ step \in InputSteps
    /\ VCalls # <<>>
    /\ Verdict(Len(VCalls)).exc = ""
    /\ ~Verdict(Len(VCalls)).valid

\* the user is at a prompt, or on the way back to it
Pending == pc \in Waiting \cup Looping

\* C27: with a user who never interrupts, a candidate a validator answered
\* "invalid" to is not accepted and the question goes back to its prompt;
\* and unless the user stays at a prompt for ever without an acceptable
\* answer, every question that is asked is eventually accepted and
\* collect_answers eventually returns.
C27_RetryLoopsReachAcceptance ==
    /\ [][Invalidated' => pc' \in Looping /\ accepted' = accepted]_vars
    /\ \/ <>[]Pending
       \/ /\ \A i \in 1..2 :
                (pc = "ask" /\ qi = i /\ i <= Len(questions)) ~> (Len(accepted) >= i)
          /\ (pc = "start") ~> (pc = "dest")

\* the calls of a default function made by the last step
DCalls == SelectSeq(calls, LAMBDA c : c.call.fn = "default")

\* C28: a default that is a function is called once when its question is
\* first asked, before any attempt, with the answers accepted so far, and by
\* no other step: not when the prompt is shown again after a required-input,
\* unknown-token or validation error.
C28_DefaultResolvedOnce ==
    IF step = "ask_question"
    THEN /\ attempts = 0
         /\ IF questions[qi].default.kind = "derived"
            THEN /\ Len(DCalls) = 1
                 /\ DCalls[1].q = qi
                 /\ DCalls[1].call.name = questions[qi].default.fn
                 /\ DCalls[1].call.answers = answers
            ELSE DCalls = <<>>
    ELSE DCalls = <<>>

\* C28: the prompt of a question whose default is a function is about to be
\* shown again after a rejected attempt
C28_Witness ==
    /\ step = "text_loop"
    /\ questions[qi].default.kind = "derived"
    /\ attempts = 1
    /\ answers # EmptyAnswers

ChoiceValues(q) == {q.choices[i][1] : i \in 1..Len(q.choices)}

\* C29: the value accepted from the live menu or from the inline choice for
\* a question without a parser is one of the question's choice values when
\* the question is not multiselect, and when it is, a list of choice values
\* in the order of the choice list with none of them twice.
C29_LiveAnswerIsAChoice ==
    [][/\ step' \in {"confirm", "inline_confirm"}
       /\ pc' = "ask"
       /\ questions[qi].parser = ""
       => LET q == questions[qi]
              value == accepted'[Len(accepted')]
          IN  IF q.multiselect
              THEN /\ IsList(value)
                   /\ \E at \in SUBSET (0..(Len(q.choices) - 1)) :
                         value.val = ValuesAt(q, at)
              ELSE value \in ChoiceValues(q)]_vars

\* C29: the inline choice was moved off its default and confirmed
C29_Witness ==
    /\ step = "inline_confirm"
    /\ pc = "ask"
    /\ Len(accepted) = 1
    /\ accepted[1] \in ChoiceValues(questions[1])
    /\ accepted[1] # defaultValue

\* the parser was called by the last step and raised ValueError
ParserFailed ==
    \E k \in 1..Len(calls) :
        /\ calls[k].call.fn = "parser"
        /\ ParserFn(calls[k].call.name, calls[k].call.arg, calls[k].call.answers).exc
              = "ValueError"

\* C30: when the parser raises ValueError on a line typed at the free-text
\* prompt, the error is shown and the prompt is asked again: no validator is
\* called for that attempt, nothing is accepted, the answers are unchanged
\* and the run goes on.
C30_TextParserErrorRetries ==
    [][step' = "text_input" /\ ParserFailed'
       => /\ pc' = "text_again"
          /\ Len(errors') = 1
          /\ errors'[1].kind = "parser"
          /\ VCalls' = <<>>
          /\ \A k \in 1..Len(calls') : calls'[k].call.fn # "validator1"
          /\ accepted' = accepted
          /\ answers' = answers
          /\ qi' = qi
          /\ exitCode' = exitCode]_vars

\* C30: the parser refused a line at a question that has validators
C30_Witness ==
    /\ step = "text_input"
    /\ ParserFailed
    /\ pc = "text_again"
    /\ questions[qi].validators # <<>>
    /\ lastInput # <<>>

\* the entries of the caller's mapping that no question overwrites
Kept == DOMAIN initial_answers \ Keys

\* C31: collect_answers leaves the mapping it was given as it was, at every
\* step, whether it returns or an interrupt ends it; the map it works on and
\* returns holds every entry of that mapping whose key is not a question's.
C31_InitialAnswersUntouched ==
    /\ [][initial_answers' = initial_answers]_vars
    /\ [](pc # "start" =>
             \A k \in Kept : k \in DOMAIN answers /\ answers[k] = initial_answers[k])

\* C31: collect_answers has returned a map in which a question's answer
\* replaced the caller's entry and another entry of the caller's is kept
C31_Witness ==
    /\ pc = "dest"
    /\ Kept # {}
    /\ \E k \in DOMAIN initial_answers \cap Keys : answers[k] # initial_answers[k]

\* C31: an interrupt ended collect_answers after it had stored an answer
C31_AbortedWitness ==
    /\ pc = "aborted"
    /\ accepted # <<>>
    /\ initial_answers # EmptyAnswers

\* the message ensure_destination exits with when the overwrite is refused
AbortedByUser == <<Error("exit", "aborted by user.", <<>>)>>

\* C32: without live mode, ensure_destination on a non-empty directory and
\* without the force flag exits with "aborted by user." in that very step,
\* without waiting for any input; with the force flag, or on an empty or
\* missing directory, it waits for no input in either mode and, unless the
\* destination is a file, goes on to apply; the overwrite question is only
\* ever pending for a non-empty directory without force.
C32_NoLiveModeRefusesOverwrite ==
    /\ [][step' = "ensure_destination" /\ pc = "dest"
          => /\ destState' = "nonempty" /\ ~force /\ ~supports_live_interaction
                => /\ pc' = "exited"
                   /\ exitCode' = 1
                   /\ errors' = AbortedByUser
                   /\ lastInput' = <<>>
             /\ force \/ destState' \in {"empty", "missing"}
                => /\ pc' \notin Waiting
                   /\ destState' # "file" => pc' = "apply" /\ errors' = <<>>]_vars
    /\ [](pc = "overwrite" => destState = "nonempty" /\ ~force)

\* C32: a non-empty destination, no force flag and no terminal: the run has
\* exited from ensure_destination with the abort message
C32_Witness ==
    /\ step = "ensure_destination"
    /\ destState = "nonempty"
    /\ ~force
    /\ ~tty
    /\ pc = "exited"
    /\ errors = AbortedByUser

\* C32: the force flag with a non-empty destination and a terminal: the run
\* has gone past ensure_destination without the overwrite question
C32_ForcedWitness ==
    /\ step = "ensure_destination"
    /\ destState = "nonempty"
    /\ force
    /\ tty
    /\ pc = "apply"

\* main has returned or the process has exited
Ended == pc \in {"done", "exited", "aborted", "crashed"}

\* C33: when main has returned or exited, no directory made for a clone is
\* left behind.
C33_TempDirRemovedOnEveryPath == Ended => tempDir # "created"

====
